---- MODULE Spec2Model ----
(***************************************************************************)
(* The configuration long-poll watch center of polaris                     *)
(* (src/config/watcher.go): LongPollWatchContext, watchCenter and the      *)
(* timeout worker.                                                          *)
(***************************************************************************)
EXTENDS Naturals, Sequences, FiniteSets, TLC

VARIABLES
    clients,    \* watchCenter.clients : clientId -> registration (a heap index)
    watchers,   \* watchCenter.watchers: fileId   -> set of clientId
    regs,       \* the heap of LongPollWatchContext objects, in creation order
    panic,      \* TRUE once a goroutine has panicked (send on a closed channel)
    fileCache,  \* watchCenter.fileCache: key -> active release
    quickCtx,   \* the watch context handed to checkQuickResponseClient
    quickRsp,   \* what checkQuickResponseClient returned
    quickPc,    \* "idle" before the fast-path check, "done" after it
    disp,       \* the goroutine that runs OnEvent: where it is in notifyToWatchers
    sweep,      \* the goroutine of startHandleTimeoutRequestWorker
    call,       \* a goroutine of the transport layer, inside AddWatcher
    ctxDone,    \* the context of NewWatchCenter is cancelled (ctx.Done() is closed)
    subscribed, \* the event hub still delivers publish events to OnEvent
    workerPc,   \* startHandleTimeoutRequestWorker: "none" while not started,
                \* "select", or "returned"
    made,       \* what the calls of NewWatchCenter did so far
    authOut     \* what the last serverAuthability.LongPullWatchFile call did

idxVars == <<clients, watchers, regs, panic>>
quickVars == <<fileCache, quickCtx, quickRsp, quickPc>>
procVars == <<disp, sweep, call>>
lifeVars == <<ctxDone, subscribed, workerPc, made>>
authVars == <<authOut>>
vars ==
    <<clients, watchers, regs, panic, fileCache, quickCtx, quickRsp, quickPc,
      disp, sweep, call, ctxDone, subscribed, workerPc, made, authOut>>

----------------------------------------------------------------------------
(* Bounds of the model *)

NumClients == 2
NumFiles == 2
MaxVersion == 1
MaxRegs == 2
MaxWatchFiles == 2
NumConcFiles == 1
TimeoutTicks == 2

AllClientIds == <<"c1", "c2", "c3", "c4">>
AllFileNames == <<"f1", "f2", "f3", "f4">>

ClientIds == {AllClientIds[i] : i \in 1..NumClients}
FileNames == {AllFileNames[i] : i \in 1..NumFiles}
Versions == 0..MaxVersion

----------------------------------------------------------------------------
(* Messages *)

\* apiconfig.ClientConfigFileInfo as sent by a client in a watch request
FileInfos ==
    [namespace : {"default"}, group : {"g1"}, fileName : FileNames, version : Versions]

\* model.SimpleConfigFileRelease carried by a publish event
Events ==
    [namespace : {"default"}, group : {"g1"}, fileName : FileNames,
     version : Versions, md5 : {"m"}, name : {"n"}]

\* the nil *ClientConfigFileInfo of a response
NilFile ==
    [namespace |-> "", group |-> "", fileName |-> "", version |-> 0,
     md5 |-> "", name |-> ""]

notModifiedResponse == [code |-> "DataNoChange", info |-> "", configFile |-> NilFile]

\* SimpleConfigFileRelease.ToSpecNotifyClientRequest
ToSpecNotifyClientRequest(release) ==
    [namespace |-> release.namespace, group |-> release.group,
     fileName |-> release.fileName, version |-> release.version,
     md5 |-> release.md5, name |-> release.name]

\* api.NewConfigClientResponse(code, configFile)
NewConfigClientResponse(code, file) == [code |-> code, info |-> "", configFile |-> file]

\* api.NewConfigClientResponse0(code)
NewConfigClientResponse0(code) == [code |-> code, info |-> "", configFile |-> NilFile]

\* api.NewConfigClientResponseWithInfo(code, info)
NewConfigClientResponseWithInfo(code, info) ==
    [code |-> code, info |-> info, configFile |-> NilFile]

\* a nil *ConfigClientResponse
NoResponse == [code |-> "", info |-> "", configFile |-> NilFile]

\* utils.GenFileId
GenFileId(namespace, group, fileName) == namespace \o "+" \o group \o "+" \o fileName

\* model.BuildKeyForClientConfigFileInfo
BuildKeyForClientConfigFileInfo(item) ==
    item.namespace \o "@" \o item.group \o "@" \o item.fileName

\* SimpleConfigFileRelease.ActiveKey
ActiveKey(release) == release.namespace \o "@" \o release.group \o "@" \o release.fileName

----------------------------------------------------------------------------
(* Maps and sets (utils.SyncMap, utils.SyncSet, Go maps) *)

MapPut(m, k, v) == [x \in DOMAIN m \cup {k} |-> IF x = k THEN v ELSE m[x]]
MapDelete(m, k) == [x \in DOMAIN m \ {k} |-> m[x]]
EmptyMap == [x \in {} |-> 0]

\* every order in which a Range over the set S may visit its members
Orders(S) ==
    {s \in [1..Cardinality(S) -> S] : \A i, j \in 1..Cardinality(S) : i # j => s[i] # s[j]}

Min(a, b) == IF a <= b THEN a ELSE b

----------------------------------------------------------------------------
(* LongPollWatchContext *)

\* the factory of a long-poll context. finishTime is kept relative to the clock:
\* the number of ticks of the timeout worker until the deadline has passed
NewLongPollWatchContext(clientId) ==
    [clientId |-> clientId,
     once |-> FALSE,                 \* sync.Once already fired
     finishTime |-> TimeoutTicks,
     finishChan |-> <<>>,            \* values ever sent on finishChan
     closed |-> FALSE,               \* finishChan closed
     watchConfigFiles |-> EmptyMap,  \* key -> ClientConfigFileInfo
     replyCalls |-> 0,               \* history: calls of Reply
     closeCalls |-> 0,               \* history: calls of Close
     cancelled |-> "",               \* history: the call by which the client
                                     \* itself removed it
     matched |-> FALSE]              \* history: a newer version of a watched
                                     \* file was published since

IsOnce(c) == TRUE

ShouldExpire(c) == TRUE

ClientID(c) == c.clientId

ShouldNotifyLE(c, event) ==
    LET key == ActiveKey(event) IN
    IF key \notin DOMAIN c.watchConfigFiles THEN FALSE
    ELSE c.watchConfigFiles[key].version <= event.version

ShouldNotify(c, event) ==
    LET key == ActiveKey(event) IN
    IF key \notin DOMAIN c.watchConfigFiles THEN FALSE
    ELSE c.watchConfigFiles[key].version < event.version

\* the set of the map's values; the order of the Go slice is the map's
ListWatchFiles(c) == {c.watchConfigFiles[k] : k \in DOMAIN c.watchConfigFiles}

AppendInterest(c, item) ==
    [c EXCEPT !.watchConfigFiles = MapPut(@, BuildKeyForClientConfigFileInfo(item), item)]

RemoveInterest(c, item) ==
    [c EXCEPT !.watchConfigFiles = MapDelete(@, BuildKeyForClientConfigFileInfo(item))]

Close(c) == [c EXCEPT !.closeCalls = Min(@ + 1, 3)]

\* the function run under once.Do: finishChan <- rsp; close(finishChan)
SendAndClose(st, r, rsp) ==
    IF st.regs[r].closed
    THEN [st EXCEPT !.panic = TRUE]
    ELSE [st EXCEPT !.regs[r].finishChan = Append(@, rsp), !.regs[r].closed = TRUE]

ReplyNoOnce(st, r, rsp) ==
    SendAndClose([st EXCEPT !.regs[r].replyCalls = Min(@ + 1, 3)], r, rsp)

Reply(st, r, rsp) ==
    LET st1 == [st EXCEPT !.regs[r].replyCalls = Min(@ + 1, 3)] IN
    IF st.regs[r].once THEN st1
    ELSE SendAndClose([st1 EXCEPT !.regs[r].once = TRUE], r, rsp)

----------------------------------------------------------------------------
(* watchCenter: operations on the index state                              *)
(*   st = [clients, watchers, regs, panic]                                 *)

St == [clients |-> clients, watchers |-> watchers, regs |-> regs, panic |-> panic]

Install(st) ==
    /\ clients' = st.clients
    /\ watchers' = st.watchers
    /\ regs' = st.regs
    /\ panic' = st.panic

\* the loop "for _, file := range files { watchers.Load(id); watchers.Remove(clientId) }"
RemoveFromBuckets(st, clientId, files) ==
    LET ids == {GenFileId(f.namespace, f.group, f.fileName) : f \in files} IN
    [st EXCEPT !.watchers =
        [k \in DOMAIN @ |-> IF k \in ids THEN @[k] \ {clientId} ELSE @[k]]]

\* GetWatchContext
GetWatchContext(st, clientId) ==
    IF clientId \in DOMAIN st.clients THEN {st.clients[clientId]} ELSE {}

\* DelWatchContext, clients.Delete
DelWatchContext(st, clientId) == [st EXCEPT !.clients = MapDelete(@, clientId)]

\* one iteration of AddWatcher's loop over watchFiles
AddWatcherFile(st, r, clientId, file) ==
    LET fileKey == GenFileId(file.namespace, file.group, file.fileName)
        bucket == IF fileKey \in DOMAIN st.watchers THEN st.watchers[fileKey] ELSE {}
    IN [st EXCEPT !.regs[r] = AppendInterest(@, file),
                  !.watchers = MapPut(@, fileKey, bucket \cup {clientId})]

RECURSIVE AddWatcherLoop(_, _, _, _)
AddWatcherLoop(st, r, clientId, watchFiles) ==
    IF watchFiles = <<>> THEN st
    ELSE AddWatcherLoop(AddWatcherFile(st, r, clientId, Head(watchFiles)),
                        r, clientId, Tail(watchFiles))

ComputeAlways(st, clientId) ==
    [st EXCEPT !.regs = Append(@, NewLongPollWatchContext(clientId)),
               !.clients = MapPut(@, clientId, Len(st.regs) + 1)]

\* clients.ComputeIfAbsent(clientId, factory)
ComputeIfAbsent(st, clientId) ==
    IF clientId \in DOMAIN st.clients THEN st
    ELSE [st EXCEPT !.regs = Append(@, NewLongPollWatchContext(clientId)),
                    !.clients = MapPut(@, clientId, Len(st.regs) + 1)]

AddWatcher(st, clientId, watchFiles) ==
    LET st1 == ComputeIfAbsent(st, clientId) IN
    AddWatcherLoop(st1, st1.clients[clientId], clientId, watchFiles)

RemoveAllWatcherKeepClient(st, clientId) ==
    IF clientId \notin DOMAIN st.clients THEN st
    ELSE LET r == st.clients[clientId]
             st1 == [st EXCEPT !.regs[r] = Close(@)]
         IN RemoveFromBuckets(st1, clientId, ListWatchFiles(st1.regs[r]))

RemoveAllWatcher(st, clientId) ==
    IF clientId \notin DOMAIN st.clients THEN st
    ELSE LET r == st.clients[clientId]
             st1 == DelWatchContext(st, clientId)
             st2 == [st1 EXCEPT !.regs[r] = Close(@)]
         IN RemoveFromBuckets(st2, clientId, ListWatchFiles(st2.regs[r]))

RemoveWatcher(st, clientId, watchConfigFiles) ==
    LET st1 == IF clientId \in DOMAIN st.clients
               THEN [DelWatchContext(st, clientId) EXCEPT
                        !.regs[st.clients[clientId]] = Close(@)]
               ELSE st
    IN IF Len(watchConfigFiles) = 0 THEN st1
       ELSE RemoveFromBuckets(st1, clientId,
                {watchConfigFiles[i] : i \in 1..Len(watchConfigFiles)})

NotifyClientKeepStale(st, watchFileId, clientId, event, response) ==
    IF clientId \notin DOMAIN st.clients
    THEN st
    ELSE LET r == st.clients[clientId]
             st1 == IF ShouldNotify(st.regs[r], event) THEN Reply(st, r, response) ELSE st
         IN IF IsOnce(st1.regs[r])
            THEN RemoveAllWatcher(DelWatchContext(st1, clientId), ClientID(st1.regs[r]))
            ELSE st1

\* the callback of clientIds.Range in notifyToWatchers
NotifyClient(st, watchFileId, clientId, event, response) ==
    IF clientId \notin DOMAIN st.clients
    THEN [st EXCEPT !.watchers[watchFileId] = @ \ {clientId}]
    ELSE LET r == st.clients[clientId]
             st1 == IF ShouldNotify(st.regs[r], event) THEN Reply(st, r, response) ELSE st
         IN IF IsOnce(st1.regs[r])
            THEN RemoveAllWatcher(DelWatchContext(st1, clientId), ClientID(st1.regs[r]))
            ELSE st1

NotifyRangeFirstOnly(st, watchFileId, order, event, response) ==
    IF order = <<>> THEN st
    ELSE NotifyClient(st, watchFileId, Head(order), event, response)

RECURSIVE NotifyRange(_, _, _, _, _)
NotifyRange(st, watchFileId, order, event, response) ==
    IF order = <<>> THEN st
    ELSE NotifyRange(NotifyClient(st, watchFileId, Head(order), event, response),
                     watchFileId, Tail(order), event, response)

\* the response notifyToWatchers builds, lines 309-310
FileChangedResponse(event) ==
    NewConfigClientResponse("ExecuteSuccess", ToSpecNotifyClientRequest(event))

notifyToWatchersAllClients(st, event, order) ==
    LET watchFileId == GenFileId(event.namespace, event.group, event.fileName) IN
    IF watchFileId \notin DOMAIN st.watchers THEN st
    ELSE NotifyRange(st, watchFileId, CHOOSE o \in Orders(DOMAIN st.clients) : TRUE,
                     event, FileChangedResponse(event))

\* notifyToWatchers; order is the order in which Range visits its snapshot
notifyToWatchers(st, event, order) ==
    LET watchFileId == GenFileId(event.namespace, event.group, event.fileName) IN
    IF watchFileId \notin DOMAIN st.watchers THEN st
    ELSE NotifyRange(st, watchFileId, order, event, FileChangedResponse(event))

\* the orders notifyToWatchers may take for an event
NotifyOrders(st, event) ==
    LET watchFileId == GenFileId(event.namespace, event.group, event.fileName) IN
    IF watchFileId \notin DOMAIN st.watchers THEN {<<>>} ELSE Orders(st.watchers[watchFileId])

\* the second loop of a tick: Reply(notModifiedResponse); RemoveAllWatcher
RECURSIVE ExpireAll(_, _)
ExpireAll(st, waitRemove) ==
    IF waitRemove = <<>> THEN st
    ELSE LET r == Head(waitRemove) IN
         ExpireAll(RemoveAllWatcher(Reply(st, r, notModifiedResponse), ClientID(st.regs[r])),
                   Tail(waitRemove))

\* what clients.Range collects in waitRemove
WaitRemoveSet(st) ==
    {st.clients[c] : c \in {d \in DOMAIN st.clients : ShouldExpire(st.regs[st.clients[d]])}}

\* the clock advances by one tick: every deadline comes one tick closer
ClockTick(st) ==
    [st EXCEPT !.regs = [r \in DOMAIN @ |->
        [@[r] EXCEPT !.finishTime = IF @ = 0 THEN 0 ELSE @ - 1]]]

\* one tick of startHandleTimeoutRequestWorker
HandleTimeoutTick(st, waitRemove) ==
    IF Cardinality(DOMAIN st.clients) = 0 THEN st ELSE ExpireAll(st, waitRemove)

\* fileCache.GetActiveRelease: the release, or none
GetActiveRelease(cache, namespace, group, fileName) ==
    LET key == namespace \o "@" \o group \o "@" \o fileName IN
    IF key \in DOMAIN cache THEN {cache[key]} ELSE {}

\* the loop of checkQuickResponseClient over watchFiles
RECURSIVE QuickResponseLoop(_, _, _)
QuickResponseLoop(watchCtx, cache, watchFiles) ==
    IF watchFiles = <<>> THEN NoResponse
    ELSE LET configFile == Head(watchFiles)
             namespace == configFile.namespace
             group == configFile.group
             fileName == configFile.fileName
             found == GetActiveRelease(cache, namespace, group, fileName)
         IN IF namespace = "" \/ group = "" \/ fileName = ""
            THEN NewConfigClientResponseWithInfo("BadRequest",
                    "namespace & group & fileName can not be empty")
            ELSE IF \E release \in found : ShouldNotify(watchCtx, release)
            THEN LET release == CHOOSE x \in found : TRUE IN
                 NewConfigClientResponse("ExecuteSuccess",
                    [namespace |-> namespace, group |-> group, fileName |-> fileName,
                     version |-> release.version, md5 |-> release.md5,
                     name |-> release.name])
            ELSE QuickResponseLoop(watchCtx, cache, Tail(watchFiles))

\* checkQuickResponseClient; watchFiles is ListWatchFiles in the order the map gave
checkQuickResponseClient(watchCtx, cache, watchFiles) ==
    IF Len(watchFiles) = 0
    THEN NewConfigClientResponse0("InvalidWatchConfigFileFormat")
    ELSE QuickResponseLoop(watchCtx, cache, watchFiles)

----------------------------------------------------------------------------
(* The watch center, each handler run to completion *)

\* the goroutines at rest
\* no LongPullWatchFile call of the auth wrapper has been made
NoCall == [check |-> "", forwarded |-> 0, err |-> "nil", callback |-> NoResponse]

\* one call of NewWatchCenter has returned the watch center
MadeOnce == [calls |-> 1, subscribes |-> 1, err |-> "nil", wc |-> TRUE]

DispIdle == [pc |-> "idle", event |-> NilFile, todo |-> {}, clientId |-> "", ctx |-> 0]
SweepIdle == [pc |-> "idle", waitRemove |-> <<>>]
CallIdle == [pc |-> "idle", clientId |-> "", ctx |-> 0, watchFiles |-> <<>>]

Init ==
    /\ clients = EmptyMap
    /\ watchers = EmptyMap
    /\ regs = <<>>
    /\ panic = FALSE
    /\ fileCache = EmptyMap
    /\ quickCtx = NewLongPollWatchContext("")
    /\ quickRsp = NoResponse
    /\ quickPc = "idle"
    /\ disp = DispIdle
    /\ sweep = SweepIdle
    /\ call = CallIdle
    /\ ctxDone = FALSE
    /\ subscribed = TRUE
    /\ workerPc = "select"
    /\ made = MadeOnce
    /\ authOut = NoCall

\* the position of a file name in AllFileNames
FileIndex(fileName) == CHOOSE i \in 1..Len(AllFileNames) : AllFileNames[i] = fileName

\* the lists of files a request may carry: no file is named twice, and the
\* files come in one order (the handlers treat the entries independently)
WatchFileLists ==
    {s \in UNION {[1..n -> FileInfos] : n \in 1..MaxWatchFiles} :
        \A i, j \in 1..Len(s) : i < j => FileIndex(s[i].fileName) < FileIndex(s[j].fileName)}

\* the lists of files a deregistration may carry: the versions are not read
RemoveFileLists ==
    {s \in WatchFileLists : \A i \in 1..Len(s) : s[i].version = 0} \cup {<<>>}

\* a client request reaches AddWatcher
DoAddWatcher ==
    \E clientId \in ClientIds, watchFiles \in WatchFileLists :
        /\ clientId \in DOMAIN clients \/ Len(regs) < MaxRegs
        /\ Install(AddWatcher(St, clientId, watchFiles))
        /\ UNCHANGED <<quickVars, procVars, lifeVars, authVars>>

\* history: the client itself gives up the registration it holds
Cancel(st, clientId, by) ==
    IF clientId \in DOMAIN st.clients
    THEN [st EXCEPT !.regs[st.clients[clientId]].cancelled = by]
    ELSE st

\* a client disconnects
DoRemoveAllWatcher ==
    /\ \E clientId \in ClientIds :
        Install(RemoveAllWatcher(Cancel(St, clientId, "RemoveAllWatcher"), clientId))
    /\ UNCHANGED <<quickVars, procVars, lifeVars, authVars>>

\* a client deregisters some files
DoRemoveWatcher ==
    /\ \E clientId \in ClientIds, watchFiles \in RemoveFileLists :
        Install(RemoveWatcher(Cancel(St, clientId, "RemoveWatcher"), clientId, watchFiles))
    /\ UNCHANGED <<quickVars, procVars, lifeVars, authVars>>

\* the event is on a file the registration watches and carries a newer version
Matches(c, event) ==
    /\ ActiveKey(event) \in DOMAIN c.watchConfigFiles
    /\ c.watchConfigFiles[ActiveKey(event)].version < event.version

\* history: the registrations, live or not, the event matches
MarkMatched(st, event) ==
    [st EXCEPT !.regs = [r \in DOMAIN @ |->
        IF Matches(@[r], event) THEN [@[r] EXCEPT !.matched = TRUE] ELSE @[r]]]

\* OnEvent: a publish event is dispatched
DoOnEvent ==
    /\ \E event \in Events :
        \E order \in NotifyOrders(St, event) :
            Install(notifyToWatchers(MarkMatched(St, event), event, order))
    /\ UNCHANGED <<quickVars, procVars, lifeVars, authVars>>

\* the ticker fires
DoTick ==
    /\ \E waitRemove \in Orders(WaitRemoveSet(St)) :
        Install(HandleTimeoutTick(ClockTick(St), waitRemove))
    /\ UNCHANGED <<quickVars, procVars, lifeVars, authVars>>

Next == DoAddWatcher \/ DoRemoveAllWatcher \/ DoRemoveWatcher \/ DoOnEvent \/ DoTick

Spec == Init /\ [][Next]_vars

FairSpec == Spec /\ WF_vars(DoTick)

----------------------------------------------------------------------------
(* The watch center with its goroutines interleaved: the dispatcher, the   *)
(* timeout worker and the callers take one step at a time, a step being    *)
(* one operation on a SyncMap or SyncSet, one call of ShouldNotify or one   *)
(* call of Reply. The clock and the history of published versions are left *)
(* out: no step reads them                                                 *)

\* the files the interleaved goroutines work on
ConcFileNames == {AllFileNames[i] : i \in 1..NumConcFiles}
ConcEvents == {event \in Events : event.fileName \in ConcFileNames}
ConcWatchFileLists ==
    {s \in WatchFileLists : \A i \in 1..Len(s) : s[i].fileName \in ConcFileNames}

\* the dispatcher after a callback of Range has returned
NextCallback(d) ==
    IF d.todo = {} THEN DispIdle ELSE [d EXCEPT !.pc = "range", !.clientId = "", !.ctx = 0]

\* notifyToWatchers, lines 301-310: load the bucket and take Range's snapshot
ConcNotifyStart ==
    /\ disp.pc = "idle"
    /\ \E event \in ConcEvents :
        LET watchFileId == GenFileId(event.namespace, event.group, event.fileName) IN
        /\ watchFileId \in DOMAIN watchers
        /\ watchers[watchFileId] # {}
        /\ disp' = [DispIdle EXCEPT !.pc = "range", !.event = event,
                                    !.todo = watchers[watchFileId]]
    /\ UNCHANGED <<idxVars, sweep, call, quickVars, lifeVars, authVars>>

\* line 313: the callback loads the next client of the snapshot
ConcNotifyLoad ==
    /\ disp.pc = "range"
    /\ \E clientId \in disp.todo :
        disp' = [disp EXCEPT !.todo = @ \ {clientId}, !.clientId = clientId,
                    !.ctx = IF clientId \in DOMAIN clients THEN clients[clientId] ELSE 0,
                    !.pc = IF clientId \in DOMAIN clients THEN "notify" ELSE "stale"]
    /\ UNCHANGED <<idxVars, sweep, call, quickVars, lifeVars, authVars>>

\* line 317: the client had no registration
ConcNotifyStale ==
    /\ disp.pc = "stale"
    /\ LET watchFileId ==
            GenFileId(disp.event.namespace, disp.event.group, disp.event.fileName)
       IN Install([St EXCEPT !.watchers[watchFileId] = @ \ {disp.clientId}])
    /\ disp' = NextCallback(disp)
    /\ UNCHANGED <<sweep, call, quickVars, lifeVars, authVars>>

\* line 321: ShouldNotify reads the interest set; when it is false the callback
\* goes on to line 325
ConcNotifyCheck ==
    /\ disp.pc = "notify"
    /\ disp' = IF ShouldNotify(regs[disp.ctx], disp.event) THEN [disp EXCEPT !.pc = "reply"]
               ELSE IF IsOnce(regs[disp.ctx]) THEN [disp EXCEPT !.pc = "delete"]
               ELSE NextCallback(disp)
    /\ UNCHANGED <<idxVars, sweep, call, quickVars, lifeVars, authVars>>

\* lines 322-325
ConcNotifyReply ==
    /\ disp.pc = "reply"
    /\ Install(Reply(St, disp.ctx, FileChangedResponse(disp.event)))
    /\ disp' = IF IsOnce(regs[disp.ctx]) THEN [disp EXCEPT !.pc = "delete"]
               ELSE NextCallback(disp)
    /\ UNCHANGED <<sweep, call, quickVars, lifeVars, authVars>>

\* line 326
ConcNotifyDelete ==
    /\ disp.pc = "delete"
    /\ Install(DelWatchContext(St, disp.clientId))
    /\ disp' = [disp EXCEPT !.pc = "removeAll"]
    /\ UNCHANGED <<sweep, call, quickVars, lifeVars, authVars>>

\* line 327
ConcNotifyRemoveAll ==
    /\ disp.pc = "removeAll"
    /\ Install(RemoveAllWatcher(St, ClientID(regs[disp.ctx])))
    /\ disp' = NextCallback(disp)
    /\ UNCHANGED <<sweep, call, quickVars, lifeVars, authVars>>

\* lines 344-355: the ticker fires; the worker collects waitRemove
ConcTickStart ==
    /\ sweep.pc = "idle"
    /\ Cardinality(DOMAIN clients) # 0
    /\ \E waitRemove \in Orders(WaitRemoveSet(St)) :
            sweep' = [pc |-> "reply", waitRemove |-> waitRemove]
    /\ UNCHANGED <<idxVars, disp, call, quickVars, lifeVars, authVars>>

\* line 359
ConcTickReply ==
    /\ sweep.pc = "reply"
    /\ Install(Reply(St, Head(sweep.waitRemove), notModifiedResponse))
    /\ sweep' = [sweep EXCEPT !.pc = "remove"]
    /\ UNCHANGED <<disp, call, quickVars, lifeVars, authVars>>

\* line 360
ConcTickRemove ==
    /\ sweep.pc = "remove"
    /\ Install(RemoveAllWatcher(St, ClientID(regs[Head(sweep.waitRemove)])))
    /\ sweep' = IF Tail(sweep.waitRemove) = <<>> THEN SweepIdle
                ELSE [pc |-> "reply", waitRemove |-> Tail(sweep.waitRemove)]
    /\ UNCHANGED <<disp, call, quickVars, lifeVars, authVars>>

\* AddWatcher, lines 247-249
ConcAddWatcherStart ==
    /\ call.pc = "idle"
    /\ \E clientId \in ClientIds, watchFiles \in ConcWatchFileLists :
        /\ clientId \in DOMAIN clients \/ Len(regs) < MaxRegs
        /\ LET st == ComputeIfAbsent(St, clientId) IN
            /\ Install(st)
            /\ call' = [pc |-> "add", clientId |-> clientId, ctx |-> st.clients[clientId],
                        watchFiles |-> watchFiles]
    /\ UNCHANGED <<disp, sweep, quickVars, lifeVars, authVars>>

\* AddWatcher, lines 251-259: one file of the loop
ConcAddWatcherFile ==
    /\ call.pc = "add"
    /\ Install(AddWatcherFile(St, call.ctx, call.clientId, Head(call.watchFiles)))
    /\ call' = IF Tail(call.watchFiles) = <<>> THEN CallIdle
               ELSE [call EXCEPT !.watchFiles = Tail(@)]
    /\ UNCHANGED <<disp, sweep, quickVars, lifeVars, authVars>>

\* a client disconnects
ConcRemoveAllWatcher ==
    /\ \E clientId \in ClientIds :
        Install(RemoveAllWatcher(Cancel(St, clientId, "RemoveAllWatcher"), clientId))
    /\ UNCHANGED <<procVars, quickVars, lifeVars, authVars>>

NextConc ==
    \/ ConcNotifyStart \/ ConcNotifyLoad \/ ConcNotifyStale
    \/ ConcNotifyCheck \/ ConcNotifyReply \/ ConcNotifyDelete \/ ConcNotifyRemoveAll
    \/ ConcTickStart \/ ConcTickReply \/ ConcTickRemove
    \/ ConcAddWatcherStart \/ ConcAddWatcherFile
    \/ ConcRemoveAllWatcher

SpecConc == Init /\ [][NextConc]_vars

----------------------------------------------------------------------------
(* The fast-path check, on every request and cache content within the bounds *)

\* the file entries a request may carry: a configured file, or an entry that
\* leaves its namespace, its group or its file name empty
QuickFileInfos ==
    FileInfos
    \cup [namespace : {""}, group : {"g1"}, fileName : {AllFileNames[1]}, version : Versions]
    \cup [namespace : {"default"}, group : {""}, fileName : {AllFileNames[1]}, version : Versions]
    \cup [namespace : {"default"}, group : {"g1"}, fileName : {""}, version : Versions]

\* the sets of entries with distinct keys, at most MaxWatchFiles of them
QuickRequests ==
    {S \in SUBSET QuickFileInfos :
        /\ Cardinality(S) <= MaxWatchFiles
        /\ \A a, b \in S : a # b =>
                BuildKeyForClientConfigFileInfo(a) # BuildKeyForClientConfigFileInfo(b)}

\* the context the caller builds: AppendInterest for every entry of the request
QuickContext(S) ==
    [NewLongPollWatchContext("") EXCEPT !.watchConfigFiles =
        [k \in {BuildKeyForClientConfigFileInfo(a) : a \in S} |->
            CHOOSE a \in S : BuildKeyForClientConfigFileInfo(a) = k]]

\* the active releases the cache may hold for a file
Releases(fileName) ==
    [namespace : {"default"}, group : {"g1"}, fileName : {fileName},
     version : Versions, md5 : {"m1", "m2"}, name : {"n"}]

\* the contents of the cache: each file has an active release or none
Caches ==
    UNION {{cache \in [{ActiveKey(CHOOSE x \in Releases(f) : TRUE) : f \in F}
                            -> UNION {Releases(f) : f \in F}] :
                \A k \in DOMAIN cache : ActiveKey(cache[k]) = k}
           : F \in SUBSET FileNames}

InitQuick ==
    /\ clients = EmptyMap
    /\ watchers = EmptyMap
    /\ regs = <<>>
    /\ panic = FALSE
    /\ fileCache \in Caches
    /\ quickCtx \in {QuickContext(S) : S \in QuickRequests}
    /\ quickRsp = NoResponse
    /\ quickPc = "idle"
    /\ disp = DispIdle
    /\ sweep = SweepIdle
    /\ call = CallIdle
    /\ ctxDone = FALSE
    /\ subscribed = TRUE
    /\ workerPc = "select"
    /\ made = MadeOnce
    /\ authOut = NoCall

\* the caller runs the fast-path check on the context it built
DoCheckQuickResponseClient ==
    /\ quickPc = "idle"
    /\ \E watchFiles \in Orders(ListWatchFiles(quickCtx)) :
            quickRsp' = checkQuickResponseClient(quickCtx, fileCache, watchFiles)
    /\ quickPc' = "done"
    /\ UNCHANGED <<clients, watchers, regs, panic, fileCache, quickCtx>>
    /\ UNCHANGED <<procVars, lifeVars, authVars>>

NextQuick == DoCheckQuickResponseClient

SpecQuick == InitQuick /\ [][NextQuick]_vars

----------------------------------------------------------------------------
(* Properties *)

RegIds == 1..Len(regs)

\* the registration is in clientIndex
Live(r) == \E c \in DOMAIN clients : clients[c] = r

\* the registration's slot holds a value
Resolved(r) == regs[r].finishChan # <<>>

\* the response a dispatch pass builds for an event
FileChanged(event) ==
    NewConfigClientResponse("ExecuteSuccess", ToSpecNotifyClientRequest(event))

\* the registration declares, for the event's file, a version not below the event's
NotNewer(c, event) ==
    /\ ActiveKey(event) \in DOMAIN c.watchConfigFiles
    /\ c.watchConfigFiles[ActiveKey(event)].version >= event.version

\* the responses the dispatcher and the timeout worker hand to Reply
Responses == {notModifiedResponse} \cup {FileChangedResponse(event) : event \in Events}

\* C1: under every interleaving of dispatcher passes, timeout sweeps, registrations
\* and disconnects, the delivery slot of every registration holds at most one
\* response, it is closed exactly when it holds one (no second close, no send on a
\* closed slot), and a further Reply on a resolved registration changes nothing.
C1_ReplyAtMostOnce ==
    /\ ~panic
    /\ \A r \in RegIds :
        /\ Len(regs[r].finishChan) <= 1
        /\ regs[r].closed <=> Len(regs[r].finishChan) = 1
        /\ regs[r].once <=> regs[r].closed
        /\ Len(regs[r].finishChan) = 1 =>
            \A rsp \in Responses :
                LET st == Reply(St, r, rsp) IN
                /\ st.regs[r].finishChan = regs[r].finishChan
                /\ st.regs[r].closed
                /\ ~st.panic

\* Reply ran at least twice on one registration, from racing workers
C1_Witness ==
    \E r \in RegIds :
        /\ regs[r].replyCalls >= 2
        /\ Len(regs[r].finishChan) = 1
        /\ regs[r].closed

\* C2: every registration whose client does not itself unregister is eventually
\* resolved with exactly one terminal response (ticks of the timeout worker fair).
C2_EventuallyResolved ==
    \A r \in 1..MaxRegs :
        [](r <= Len(regs) =>
            <>(/\ r <= Len(regs)
               /\ (regs[r].cancelled # "" \/ Len(regs[r].finishChan) = 1)))

\* C3: a dispatch pass for an event on file F with version V resolves every live
\* registration that declared a version < V for F with the file-changed response
\* carrying V, and sends nothing to a registration that declared a version >= V.
C3_DispatchByVersion ==
    \A event \in Events : \A order \in NotifyOrders(St, event) :
        LET st == notifyToWatchers(St, event, order) IN
        \A r \in RegIds :
            /\ (Live(r) /\ Matches(regs[r], event))
                    => st.regs[r].finishChan = <<FileChanged(event)>>
            /\ NotNewer(regs[r], event)
                    => st.regs[r].finishChan = regs[r].finishChan

\* C3 witness: a dispatch pass has resolved one registration with a file-changed
\* response and has passed over another without a reply.
C3_Witness ==
    \E r1, r2 \in RegIds :
        /\ Resolved(r1) /\ regs[r1].finishChan[1].code = "ExecuteSuccess"
        /\ ~Live(r2) /\ ~Resolved(r2) /\ regs[r2].cancelled = ""

\* C4: right after RemoveAllWatcher(C) returns, from any reachable state, C is a
\* member of no file's bucket.
C4_RemoveAllClearsBuckets ==
    \A c \in ClientIds :
        LET st == RemoveAllWatcher(St, c) IN
        \A k \in DOMAIN st.watchers : c \notin st.watchers[k]

\* C5: every client id in a bucket has a registration in clientIndex.
C5_BucketsHaveRegistrations ==
    \A k \in DOMAIN watchers : \A c \in watchers[k] : c \in DOMAIN clients

\* C6: a registration no matching event was published for, and which its client
\* did not give up, holds the no-change response once a tick of the timeout
\* worker has found its deadline passed.
C6_NoChangeAfterTimeout ==
    \A r \in RegIds :
        (regs[r].finishTime = 0 /\ ~regs[r].matched /\ regs[r].cancelled = "")
            => regs[r].finishChan = <<notModifiedResponse>>

\* C9: one dispatch pass resolves all the live registrations the event matches
\* with one and the same file-changed response, and dispatching the same event
\* again writes to no slot and does not panic.
C9_FanOutAndRedelivery ==
    \A event \in Events : \A order \in NotifyOrders(St, event) :
        LET st1 == notifyToWatchers(St, event, order) IN
        /\ \A r1, r2 \in RegIds :
            (Live(r1) /\ Live(r2) /\ Matches(regs[r1], event) /\ Matches(regs[r2], event))
                => /\ st1.regs[r1].finishChan = <<FileChanged(event)>>
                   /\ st1.regs[r2].finishChan = st1.regs[r1].finishChan
        /\ \A again \in NotifyOrders(st1, event) :
            LET st2 == notifyToWatchers(st1, event, again) IN
            /\ ~st2.panic
            /\ \A r \in RegIds : st2.regs[r].finishChan = st1.regs[r].finishChan

\* C9 witness: two registrations of different clients hold the same file-changed
\* response.
C9_Witness ==
    \E r1, r2 \in RegIds :
        /\ regs[r1].clientId # regs[r2].clientId
        /\ Resolved(r1) /\ regs[r1].finishChan[1].code = "ExecuteSuccess"
        /\ regs[r2].finishChan = regs[r1].finishChan

\* C10: a registration its client removed with RemoveAllWatcher never receives a
\* value, whatever event is dispatched afterwards, and no dispatch panics.
C10_NoDeliveryAfterUnregister ==
    /\ ~panic
    /\ \A r \in RegIds : regs[r].cancelled = "RemoveAllWatcher" => ~Resolved(r)
    /\ \A event \in Events : \A order \in NotifyOrders(St, event) :
        LET st == notifyToWatchers(St, event, order) IN
        /\ ~st.panic
        /\ \A r \in RegIds : regs[r].cancelled = "RemoveAllWatcher" => st.regs[r].finishChan = <<>>

\* C10 witness: a newer version of a file was published after the client of a
\* registration watching it had called RemoveAllWatcher.
C10_Witness ==
    \E r \in RegIds : regs[r].cancelled = "RemoveAllWatcher" /\ regs[r].matched

\* the entries of the request the fast-path check ran on
QuickEntries == ListWatchFiles(quickCtx)

\* the entry names its namespace, its group and its file
EntryValid(a) == a.namespace # "" /\ a.group # "" /\ a.fileName # ""

\* the cached active release of the entry's file, if its version is above the
\* version the entry declares
NewerRelease(a) ==
    {rel \in GetActiveRelease(fileCache, a.namespace, a.group, a.fileName) :
        rel.version > a.version}

\* the file-changed response that carries a release
FileChangedTo(rel) ==
    [code |-> "ExecuteSuccess", info |-> "",
     configFile |-> [namespace |-> rel.namespace, group |-> rel.group,
                     fileName |-> rel.fileName, version |-> rel.version,
                     md5 |-> rel.md5, name |-> rel.name]]

\* what C7 says of the response and of the index
QuickAnswer ==
    /\ (\E a \in QuickEntries : NewerRelease(a) # {})
            => \E a \in QuickEntries : \E rel \in NewerRelease(a) : quickRsp = FileChangedTo(rel)
    /\ (QuickEntries # {} /\ \A a \in QuickEntries : NewerRelease(a) = {})
            => quickRsp = NoResponse
    /\ clients = EmptyMap /\ watchers = EmptyMap /\ regs = <<>>

\* C7 as claimed: the fast-path check answers file-changed with the release's
\* fields whenever some watched file has a newer active release, answers nothing
\* when the request names files and none has, and leaves the index alone.
C7_QuickAnswerAlways == quickPc = "done" => QuickAnswer

\* C7 as amended: the same, for a request that names at least one file and whose
\* entries all name their namespace, group and file.
C7_QuickAnswerOnValidRequest ==
    (quickPc = "done" /\ QuickEntries # {} /\ \A a \in QuickEntries : EntryValid(a))
        => QuickAnswer

\* C7 witness: the check answered file-changed on a request of two valid entries.
C7_Witness ==
    /\ quickPc = "done"
    /\ Cardinality(QuickEntries) = 2
    /\ \A a \in QuickEntries : EntryValid(a)
    /\ quickRsp.code = "ExecuteSuccess"

\* C8: a request of no file, or with an entry that leaves its namespace, group or
\* file name empty, is answered with an invalid-request failure.
C8_InvalidRequestRejected ==
    (quickPc = "done" /\ (QuickEntries = {} \/ \E a \in QuickEntries : ~EntryValid(a)))
        => quickRsp.code \in {"InvalidWatchConfigFileFormat", "BadRequest"}

----------------------------------------------------------------------------
(* Deregistration *)

\* C11: from every reachable state, for every client and every file list (the empty
\* list and lists that omit watched files included), RemoveWatcher leaves clients and
\* every bucket exactly as RemoveAllWatcher leaves them.
C11_RemoveWatcherAsRemoveAll ==
    \A clientId \in ClientIds, watchConfigFiles \in RemoveFileLists :
        LET a == RemoveWatcher(St, clientId, watchConfigFiles)
            b == RemoveAllWatcher(St, clientId)
        IN a.clients = b.clients /\ a.watchers = b.watchers

----------------------------------------------------------------------------
(* Registration *)

\* the requests of clients and the publish events alone: what the timeout worker
\* does to clients and buckets is what RemoveAllWatcher does to them
NextReg == DoAddWatcher \/ DoRemoveAllWatcher \/ DoRemoveWatcher \/ DoOnEvent

SpecReg == Init /\ [][NextReg]_vars

\* the watchFiles arguments of AddWatcher: the lists of distinct files, the empty
\* list, and the lists that name one file twice with two versions
AddWatcherRequests ==
    WatchFileLists \cup {<<>>} \cup
    {s \in [1..2 -> FileInfos] :
        MaxWatchFiles >= 2 /\ s[1].fileName = s[2].fileName /\ s[1].version # s[2].version}

\* the key of every entry in a registration's interest set, and the id of its bucket
InterestKey == [f \in FileInfos |-> BuildKeyForClientConfigFileInfo(f)]
BucketId == [f \in FileInfos |-> GenFileId(f.namespace, f.group, f.fileName)]

\* the handle AddWatcher returns: watchCtx of line 247
AddWatcherHandle(st, clientId) == ComputeIfAbsent(st, clientId).clients[clientId]

\* st is the state AddWatcher(clientId, watchFiles) leaves: the factory ran exactly
\* when the client had no registration, the registration in clients is the returned
\* handle, and the client is in the bucket of every file
AddWatcherIndexed(st, clientId, watchFiles) ==
    \A handle \in {AddWatcherHandle(St, clientId)} :
    /\ Len(st.regs) = IF clientId \in DOMAIN clients THEN Len(regs) ELSE Len(regs) + 1
    /\ handle = IF clientId \in DOMAIN clients THEN clients[clientId] ELSE Len(regs) + 1
    /\ clientId \in DOMAIN st.clients
    /\ st.clients[clientId] = handle
    /\ \A i \in 1..Len(watchFiles) :
        /\ BucketId[watchFiles[i]] \in DOMAIN st.watchers
        /\ clientId \in st.watchers[BucketId[watchFiles[i]]]

\* the last entry of watchFiles for the file of its i-th entry
LastEntry(watchFiles, i) ==
    LET same == {j \in 1..Len(watchFiles) :
                    InterestKey[watchFiles[j]] = InterestKey[watchFiles[i]]}
    IN watchFiles[CHOOSE j \in same : \A k \in same : k <= j]

\* C12 as stated: after AddWatcher the interest set holds every entry of the list
\* with the version that entry declares.
C12_AddWatcherEveryEntry ==
    \A clientId \in ClientIds, watchFiles \in AddWatcherRequests :
        \A st \in {AddWatcher(St, clientId, watchFiles)} :
            /\ AddWatcherIndexed(st, clientId, watchFiles)
            /\ \A files \in {st.regs[st.clients[clientId]].watchConfigFiles} :
                \A i \in 1..Len(watchFiles) :
                    /\ InterestKey[watchFiles[i]] \in DOMAIN files
                    /\ files[InterestKey[watchFiles[i]]] = watchFiles[i]

\* C12: AddWatcher runs the factory only for a client without a registration and
\* reuses the registration otherwise; afterwards clients maps the client to the
\* returned handle, the client is in the bucket of every listed file, and the
\* interest set holds, for every listed file, the last entry the list has for it.
C12_AddWatcherLastEntry ==
    \A clientId \in ClientIds, watchFiles \in AddWatcherRequests :
        \A st \in {AddWatcher(St, clientId, watchFiles)} :
            /\ AddWatcherIndexed(st, clientId, watchFiles)
            /\ \A files \in {st.regs[st.clients[clientId]].watchConfigFiles} :
                \A i \in 1..Len(watchFiles) :
                    /\ InterestKey[watchFiles[i]] \in DOMAIN files
                    /\ files[InterestKey[watchFiles[i]]] = LastEntry(watchFiles, i)

\* a client registered again: its one registration holds two files, one of them with
\* a raised version, and the client is in both buckets
C12_Witness ==
    \E clientId \in DOMAIN clients :
        LET c == regs[clients[clientId]] IN
        /\ Cardinality(DOMAIN c.watchConfigFiles) = 2
        /\ \E k \in DOMAIN c.watchConfigFiles : c.watchConfigFiles[k].version = MaxVersion
        /\ \A f \in ListWatchFiles(c) :
            clientId \in watchers[GenFileId(f.namespace, f.group, f.fileName)]
        /\ AddWatcherHandle(St, clientId) = clients[clientId]

----------------------------------------------------------------------------
(* Shutdown: watchCenter.Close and the worker's select loop *)

Life == [ctxDone |-> ctxDone, subscribed |-> subscribed, workerPc |-> workerPc]

\* watchCenter.Close: wc.cancel(); wc.subCtx.Cancel()
CloseWatchCenter(l) == [l EXCEPT !.ctxDone = TRUE, !.subscribed = FALSE]

\* a caller runs watchCenter.Close; it returns without waiting for the worker
DoClose ==
    /\ ctxDone' = CloseWatchCenter(Life).ctxDone
    /\ subscribed' = CloseWatchCenter(Life).subscribed
    /\ workerPc' = CloseWatchCenter(Life).workerPc
    /\ UNCHANGED <<idxVars, quickVars, procVars, authVars, made>>

\* the worker's select takes "case <-ctx.Done()": the goroutine returns
WorkerReturn ==
    /\ workerPc = "select"
    /\ ctxDone
    /\ workerPc' = "returned"
    /\ UNCHANGED <<idxVars, quickVars, procVars, authVars, ctxDone, subscribed, made>>

\* the worker's select takes "case <-t.C": select chooses among the ready cases,
\* so a pending tick can be taken while ctx.Done() is ready as well
WorkerTick ==
    /\ workerPc = "select"
    /\ DoTick

\* the event hub delivers a publish event while the subscription stands
HubOnEvent ==
    /\ subscribed
    /\ DoOnEvent

NextLife == DoAddWatcher \/ HubOnEvent \/ WorkerTick \/ WorkerReturn \/ DoClose

SpecLife == Init /\ [][NextLife]_vars

\* C13: once Close has returned no step resolves a registration with no-change (the
\* worker makes no further sweep), the subscription is cancelled, and a second Close
\* leaves what the first one left.
C13_NoSweepAfterClose ==
    [][/\ ctxDone =>
            \A r \in RegIds :
                \/ regs'[r].finishChan = regs[r].finishChan
                \/ regs'[r].finishChan # <<notModifiedResponse>>
       /\ ctxDone' => ~subscribed'
       /\ ctxDone => CloseWatchCenter(Life) = Life]_vars

----------------------------------------------------------------------------
(* serverAuthability.LongPullWatchFile (client_authibility.go) *)

\* what CheckClientPermission returns as err: "nil", or the message of the error
PermissionErrors == {"token not exist", "token already disabled", "no permission"}
PermissionResults == {"nil"} \cup PermissionErrors

\* convertToErrCode
convertToErrCode(err) ==
    CASE err = "token not exist" -> "TokenNotExisted"
      [] err = "token already disabled" -> "TokenDisabled"
      [] OTHER -> "NotAllowedAccess"

\* targetServer.LongPullWatchFile: the wrapped server registers the watch
TargetLongPullWatchFile(st, clientId, watchFiles) == AddWatcher(st, clientId, watchFiles)

LongPullWatchFileNoGate(st, clientId, watchFiles, check) ==
    [st |-> TargetLongPullWatchFile(st, clientId, watchFiles),
     out |-> [check |-> check, forwarded |-> 1, err |-> "nil", callback |-> NoResponse]]

\* serverAuthability.LongPullWatchFile; check is the err of CheckClientPermission.
\* out.callback is the response of the callback built at lines 137-139, NoResponse
\* when the callback is the target's
LongPullWatchFile(st, clientId, watchFiles, check) ==
    IF check # "nil"
    THEN [st |-> st,
          out |-> [check |-> check, forwarded |-> 0, err |-> "nil",
                   callback |-> NewConfigClientResponseWithInfo(convertToErrCode(check),
                                                                check)]]
    ELSE [st |-> TargetLongPullWatchFile(st, clientId, watchFiles),
          out |-> [check |-> check, forwarded |-> 1, err |-> "nil",
                   callback |-> NoResponse]]

\* a client's watch request reaches the auth wrapper
DoLongPullWatchFile ==
    /\ \E clientId \in ClientIds, watchFiles \in WatchFileLists, check \in PermissionResults :
        /\ clientId \in DOMAIN clients \/ Len(regs) < MaxRegs
        /\ Install(LongPullWatchFile(St, clientId, watchFiles, check).st)
        /\ authOut' = LongPullWatchFile(St, clientId, watchFiles, check).out
    /\ UNCHANGED <<quickVars, procVars, lifeVars>>

\* a client disconnects; the record of the last call stays
AuthDisconnect ==
    /\ \E clientId \in ClientIds :
        Install(RemoveAllWatcher(Cancel(St, clientId, "RemoveAllWatcher"), clientId))
    /\ UNCHANGED <<quickVars, procVars, lifeVars, authVars>>

NextAuth == DoLongPullWatchFile \/ AuthDisconnect

SpecAuth == Init /\ [][NextAuth]_vars

\* the code and the message a denial is answered with
DenialCodes == {"TokenNotExisted", "TokenDisabled", "NotAllowedAccess"}

\* C14: a denied LongPullWatchFile never reaches the wrapped server (the index is
\* left as it was, no registration is created), returns a nil error and a callback
\* whose response carries the denial's code and message; an allowed one is forwarded
\* exactly once.
C14_DeniedNotForwarded ==
    /\ \A clientId \in ClientIds, watchFiles \in WatchFileLists, check \in PermissionResults :
        \A o \in {LongPullWatchFile(St, clientId, watchFiles, check)} :
            /\ o.out.err = "nil"
            /\ check # "nil" =>
                /\ o.out.forwarded = 0
                /\ o.st = St
                /\ o.out.callback.code = convertToErrCode(check)
                /\ o.out.callback.code \in DenialCodes
                /\ o.out.callback.info = check
                /\ o.out.callback.configFile = NilFile
            /\ check = "nil" =>
                /\ o.out.forwarded = 1
                /\ o.st = TargetLongPullWatchFile(St, clientId, watchFiles)
    /\ authOut.check \in PermissionErrors =>
        authOut.forwarded = 0 /\ authOut.callback.info = authOut.check
    /\ authOut.check = "nil" => authOut.forwarded = 1

\* a request was denied while another client's registration stands: the denied
\* call left no registration of its own
C14_Witness ==
    /\ authOut.check \in PermissionErrors
    /\ authOut.forwarded = 0
    /\ authOut.callback.code \in DenialCodes
    /\ Cardinality(DOMAIN clients) = 1
    /\ Len(regs) = 1

----------------------------------------------------------------------------
(* Dispatch and expiry, registration by registration *)

\* C15: a dispatch pass for an event whose version is not above the version a live
\* registration declares for the event's file leaves that registration in clients
\* and unresolved: the dispatcher removes a registration only after replying to it.
C15_RemovedOnlyAfterDelivery ==
    \A event \in Events :
        \A order \in NotifyOrders(St, event) :
            \A st \in {notifyToWatchers(St, event, order)} :
                \A clientId \in DOMAIN clients :
                    NotNewer(regs[clients[clientId]], event) =>
                        /\ clientId \in DOMAIN st.clients
                        /\ st.clients[clientId] = clients[clientId]
                        /\ st.regs[clients[clientId]].finishChan = <<>>

\* C16: a tick of the timeout worker leaves every registration whose deadline is
\* still ahead at the tick in clients and unresolved; it resolves and removes only
\* registrations whose finishTime has passed.
C16_OnlyExpiredSwept ==
    \A waitRemove \in Orders(WaitRemoveSet(St)) :
        \A st \in {HandleTimeoutTick(ClockTick(St), waitRemove)} :
            \A clientId \in DOMAIN clients :
                ClockTick(St).regs[clients[clientId]].finishTime > 0 =>
                    /\ clientId \in DOMAIN st.clients
                    /\ st.clients[clientId] = clients[clientId]
                    /\ st.regs[clients[clientId]].finishChan = <<>>

----------------------------------------------------------------------------
(* Interleavings of AddWatcher and RemoveAllWatcher with the workers *)

\* C17: in every interleaving of AddWatcher with the dispatch pass and the timeout
\* sweep, no step changes the interest set of a registration whose slot is resolved,
\* and AddWatcher never takes a resolved registration as the handle it returns.
C17_NoInterestAfterResolved ==
    [][/\ \A r \in RegIds :
            Resolved(r) => regs'[r].watchConfigFiles = regs[r].watchConfigFiles
       /\ (call.pc = "idle" /\ call'.pc = "add") =>
            regs'[call'.ctx].finishChan = <<>>]_vars

\* what is left of the dispatcher's callback for the client it has loaded
DispatchRest(st, d) ==
    LET st1 == IF \/ d.pc = "notify" /\ ShouldNotify(st.regs[d.ctx], d.event)
                  \/ d.pc = "reply"
               THEN Reply(st, d.ctx, FileChangedResponse(d.event))
               ELSE st
        st2 == IF d.pc \in {"notify", "reply", "delete"} THEN DelWatchContext(st1, d.clientId)
               ELSE st1
    IN RemoveAllWatcher(st2, ClientID(st2.regs[d.ctx]))

\* what is left of the sweeper's work on the head of waitRemove
SweepRest(st, s) ==
    LET r == Head(s.waitRemove)
        st1 == IF s.pc = "reply" THEN Reply(st, r, notModifiedResponse) ELSE st
    IN RemoveAllWatcher(st1, ClientID(st1.regs[r]))

\* the client is in neither index
Absent(st, clientId) ==
    /\ clientId \notin DOMAIN st.clients
    /\ \A k \in DOMAIN st.watchers : clientId \notin st.watchers[k]

\* registration r is the only registration the client has had a part in: the client
\* is in no bucket but those of r's files, and clients holds r or nothing for it
OnlyOf(clientId, r) ==
    /\ clientId \in DOMAIN clients => clients[clientId] = r
    /\ \A k \in DOMAIN watchers :
        clientId \in watchers[k] =>
            \E f \in ListWatchFiles(regs[r]) : k = GenFileId(f.namespace, f.group, f.fileName)

\* C18: when the client's own RemoveAllWatcher runs while the dispatcher or the
\* sweeper is at work on that client's registration, then after both have finished
\* the client is in neither clients nor any bucket, the slot holds at most one
\* response and nothing panicked; and a second RemoveAllWatcher changes nothing.
C18_UnregisterRaceClean ==
    /\ (/\ disp.pc \in {"notify", "reply", "delete", "removeAll"}
        /\ sweep.pc = "idle" /\ call.pc = "idle"
        /\ OnlyOf(disp.clientId, disp.ctx)
        /\ disp.pc \in {"notify", "reply", "delete"} => disp.clientId \in DOMAIN clients) =>
        \A st \in {DispatchRest(RemoveAllWatcher(St, disp.clientId), disp)} :
            /\ Absent(st, disp.clientId)
            /\ Len(st.regs[disp.ctx].finishChan) <= 1
            /\ ~st.panic
    /\ (/\ sweep.pc \in {"reply", "remove"}
        /\ disp.pc = "idle" /\ call.pc = "idle"
        /\ OnlyOf(ClientID(regs[Head(sweep.waitRemove)]), Head(sweep.waitRemove))
        /\ ClientID(regs[Head(sweep.waitRemove)]) \in DOMAIN clients) =>
        \A st \in {SweepRest(RemoveAllWatcher(St, ClientID(regs[Head(sweep.waitRemove)])),
                             sweep)} :
            /\ Absent(st, ClientID(regs[Head(sweep.waitRemove)]))
            /\ Len(st.regs[Head(sweep.waitRemove)].finishChan) <= 1
            /\ ~st.panic
    /\ \A clientId \in ClientIds :
        RemoveAllWatcher(RemoveAllWatcher(St, clientId), clientId)
            = RemoveAllWatcher(St, clientId)

----------------------------------------------------------------------------
(* Stale bucket members and ShouldNotify *)

\* the members of the event's bucket that have no registration in clients
Stale(event) ==
    LET watchFileId == GenFileId(event.namespace, event.group, event.fileName) IN
    IF watchFileId \in DOMAIN watchers
    THEN {clientId \in watchers[watchFileId] : clientId \notin DOMAIN clients}
    ELSE {}

\* C19: a dispatch pass removes from the published file's bucket every member that
\* has no registration, writes to no slot for it and does not panic, and still
\* handles every other member of the bucket: each of them is replied to when its
\* declared version is lower, and is out of clients after the pass.
C19_StaleMemberDropped ==
    \A event \in Events :
        \A order \in NotifyOrders(St, event) :
            \A st \in {notifyToWatchers(St, event, order)} :
                LET watchFileId == GenFileId(event.namespace, event.group, event.fileName) IN
                /\ ~st.panic
                /\ Len(st.regs) = Len(regs)
                /\ \A clientId \in Stale(event) :
                    /\ clientId \notin st.watchers[watchFileId]
                    /\ clientId \notin DOMAIN st.clients
                    /\ \A r \in RegIds :
                        ClientID(regs[r]) = clientId => st.regs[r] = regs[r]
                /\ Stale(event) # {} =>
                    \A clientId \in watchers[watchFileId] \ Stale(event) :
                        /\ clientId \notin DOMAIN st.clients
                        /\ ShouldNotify(regs[clients[clientId]], event) =>
                            st.regs[clients[clientId]].finishChan
                                = <<FileChangedResponse(event)>>

\* a bucket holds a member without a registration next to a member with a live
\* registration that a publish event of that file would resolve
C19_Witness ==
    \E event \in Events :
        /\ Stale(event) # {}
        /\ \E clientId \in DOMAIN clients :
            /\ clientId \in watchers[GenFileId(event.namespace, event.group, event.fileName)]
            /\ ShouldNotify(regs[clients[clientId]], event)

\* the registration holds an entry for the event's file identity
Watched(c, event) ==
    {f \in ListWatchFiles(c) :
        /\ f.namespace = event.namespace
        /\ f.group = event.group
        /\ f.fileName = event.fileName}

\* C20: ShouldNotify is true exactly when the interest set holds an entry for the
\* event's file whose declared version is strictly below the event's version: false
\* for an unwatched file and for an equal or higher declared version. It is a
\* function of the registration and the event, so evaluating it changes no state.
C20_ShouldNotifyStrictlyNewer ==
    \A r \in RegIds, event \in Events :
        /\ ShouldNotify(regs[r], event) \in BOOLEAN
        /\ ShouldNotify(regs[r], event) <=>
            \E f \in Watched(regs[r], event) : f.version < event.version
        /\ Watched(regs[r], event) = {} => ~ShouldNotify(regs[r], event)
        /\ (\E f \in Watched(regs[r], event) : f.version >= event.version)
            => ~ShouldNotify(regs[r], event)

\* one registration for which the three cases occur: a lower declared version, an
\* equal one, and an unwatched file
C20_Witness ==
    \E r \in RegIds :
        /\ \E event \in Events : ShouldNotify(regs[r], event)
        /\ \E event \in Events :
            \E f \in Watched(regs[r], event) : f.version = event.version
        /\ \E event \in Events : Watched(regs[r], event) = {}

----------------------------------------------------------------------------
(* The frame of a dispatch pass *)

\* the bucket of the event's file, empty when the file has none
Bucket(st, event) ==
    LET watchFileId == GenFileId(event.namespace, event.group, event.fileName) IN
    IF watchFileId \in DOMAIN st.watchers THEN st.watchers[watchFileId] ELSE {}

\* the buckets that hold the client
BucketsOf(st, clientId) == {k \in DOMAIN st.watchers : clientId \in st.watchers[k]}

\* C21: a dispatch pass for a file leaves everything outside the file's bucket as
\* it was. With no bucket or an empty bucket the whole index is unchanged.
\* Otherwise no registration is created, and for every client that is not a member
\* of the bucket its entry in clients, every registration made under its id (the
\* delivery slot included) and the buckets that hold it are unchanged.
C21_DispatchFrame ==
    \A event \in Events :
        \A order \in NotifyOrders(St, event) :
            \A st \in {notifyToWatchers(St, event, order)} :
                /\ Bucket(St, event) = {} => st = St
                /\ Len(st.regs) = Len(regs)
                /\ DOMAIN st.watchers = DOMAIN watchers
                /\ \A clientId \in ClientIds \ Bucket(St, event) :
                    /\ clientId \in DOMAIN st.clients <=> clientId \in DOMAIN clients
                    /\ clientId \in DOMAIN clients => st.clients[clientId] = clients[clientId]
                    /\ \A r \in RegIds :
                        ClientID(regs[r]) = clientId => st.regs[r] = regs[r]
                    /\ BucketsOf(st, clientId) = BucketsOf(St, clientId)

\* a file's bucket holds a member with a live registration while another client,
\* not a member of that bucket, holds a live registration too
C21_Witness ==
    \E event \in Events :
        /\ \E clientId \in Bucket(St, event) : clientId \in DOMAIN clients
        /\ \E clientId \in DOMAIN clients : clientId \notin Bucket(St, event)

----------------------------------------------------------------------------
(* Construction: NewWatchCenter *)

MaxNewCalls == 2

\* what eventhub.Subscribe returns as err: "nil", or the message of the error
SubscribeErrors == {"nil", "topic not exist"}

\* no call of NewWatchCenter has been made
NotMade == [calls |-> 0, subscribes |-> 0, err |-> "nil", wc |-> FALSE]

\* the life cycle together with the index the constructor allocates
Center == [ctxDone |-> ctxDone, subscribed |-> subscribed, workerPc |-> workerPc,
           made |-> made, clients |-> clients, watchers |-> watchers]

\* eventhub.Subscribe(ConfigFilePublishTopic, wc, ...) returning err
Subscribe(c, err) ==
    [c EXCEPT !.made.subscribes = @ + 1, !.subscribed = (err = "nil")]

NewWatchCenterWorkerFirst(c, err) ==
    LET c1 == [c EXCEPT !.made.calls = @ + 1, !.ctxDone = FALSE,
                        !.clients = EmptyMap, !.watchers = EmptyMap]
        c2 == [Subscribe(c1, err) EXCEPT !.workerPc = "select"]
    IN IF err # "nil"
       THEN [c2 EXCEPT !.made.err = err, !.made.wc = FALSE]
       ELSE [c2 EXCEPT !.made.err = "nil", !.made.wc = TRUE]

\* NewWatchCenter; err is what its one call of eventhub.Subscribe returns
NewWatchCenter(c, err) ==
    LET c1 == [c EXCEPT !.made.calls = @ + 1, !.ctxDone = FALSE,
                        !.clients = EmptyMap, !.watchers = EmptyMap]
        c2 == Subscribe(c1, err)
    IN IF err # "nil"
       THEN [c2 EXCEPT !.made.err = err, !.made.wc = FALSE]
       ELSE [c2 EXCEPT !.workerPc = "select", !.made.err = "nil", !.made.wc = TRUE]

InitNew ==
    /\ clients = EmptyMap
    /\ watchers = EmptyMap
    /\ regs = <<>>
    /\ panic = FALSE
    /\ fileCache = EmptyMap
    /\ quickCtx = NewLongPollWatchContext("")
    /\ quickRsp = NoResponse
    /\ quickPc = "idle"
    /\ disp = DispIdle
    /\ sweep = SweepIdle
    /\ call = CallIdle
    /\ ctxDone = FALSE
    /\ subscribed = FALSE
    /\ workerPc = "none"
    /\ made = NotMade
    /\ authOut = NoCall

\* the server starts up: it calls NewWatchCenter while it holds no watch center;
\* after a failure it may call it again
DoNewWatchCenter ==
    /\ ~made.wc
    /\ made.calls < MaxNewCalls
    /\ \E err \in SubscribeErrors :
        /\ ctxDone' = NewWatchCenter(Center, err).ctxDone
        /\ subscribed' = NewWatchCenter(Center, err).subscribed
        /\ workerPc' = NewWatchCenter(Center, err).workerPc
        /\ made' = NewWatchCenter(Center, err).made
        /\ clients' = NewWatchCenter(Center, err).clients
        /\ watchers' = NewWatchCenter(Center, err).watchers
    /\ UNCHANGED <<regs, panic, quickVars, procVars, authVars>>

\* the operations on the watch center the constructor returned
CenterAddWatcher ==
    /\ made.wc
    /\ DoAddWatcher

CenterClose ==
    /\ made.wc
    /\ DoClose

NextNew ==
    \/ DoNewWatchCenter
    \/ CenterAddWatcher
    \/ HubOnEvent
    \/ WorkerTick
    \/ WorkerReturn
    \/ CenterClose

SpecNew == InitNew /\ [][NextNew]_vars

\* C22: when the subscription to the publish topic fails, NewWatchCenter returns
\* the error and no watch center, has called Subscribe once, and leaves the sweeper
\* unstarted and the hub undelivering; the sweeper runs only after a call whose
\* subscription succeeded. A failing call changes nothing but the record of the call.
C22_SubscribeFailureIsFatal ==
    /\ made.subscribes = made.calls
    /\ made.err # "nil" => ~made.wc /\ workerPc = "none" /\ ~subscribed
    /\ workerPc # "none" => made.wc /\ made.err = "nil"
    /\ ~made.wc => workerPc = "none" /\ regs = <<>>
    /\ ~made.wc =>
        \A err \in SubscribeErrors \ {"nil"} :
            NewWatchCenter(Center, err) =
                [Center EXCEPT !.made = [calls |-> made.calls + 1,
                                         subscribes |-> made.subscribes + 1,
                                         err |-> err, wc |-> FALSE]]

\* a call of NewWatchCenter has failed on the subscription
C22_Witness ==
    /\ made.calls >= 1
    /\ made.err # "nil"

----------------------------------------------------------------------------
(* Registrations a publish event does not concern *)

\* C23: a publish event never removes from clients a live registration whose
\* interest set holds no entry for the event's file, whatever went before: after
\* the dispatch pass the client still maps to the same registration.
C23_UnrelatedRegistrationKept ==
    \A event \in Events :
        \A order \in NotifyOrders(St, event) :
            \A st \in {notifyToWatchers(St, event, order)} :
                \A clientId \in DOMAIN clients :
                    Watched(regs[clients[clientId]], event) = {} =>
                        /\ clientId \in DOMAIN st.clients
                        /\ st.clients[clientId] = clients[clientId]

----------------------------------------------------------------------------
(* The Close hook of a registration *)

\* C24: every registration that has been removed from clients has had its Close
\* called exactly once, whichever path removed it: RemoveAllWatcher, RemoveWatcher,
\* the sweeper or the dispatcher; a registration still in clients has not been closed.
C24_ClosedExactlyOnce ==
    \A r \in RegIds :
        /\ ~Live(r) => regs[r].closeCalls = 1
        /\ Live(r) => regs[r].closeCalls = 0

----------------------------------------------------------------------------
(* The value a slot is resolved with *)

\* the steps that resolve registration r: its slot was empty and holds a value after
Resolves(r) == regs[r].finishChan = <<>> /\ regs'[r].finishChan # <<>>

\* the entries of the registration's interest set for the file the response names
Declared(c, rsp) ==
    {f \in ListWatchFiles(c) :
        /\ f.namespace = rsp.configFile.namespace
        /\ f.group = rsp.configFile.group
        /\ f.fileName = rsp.configFile.fileName}

\* C25: whenever a slot is resolved, the one value written is either the no-change
\* sentinel, written by the sweeper, or the file-changed response of the event the
\* dispatcher is handling; the file-changed response names a file that is in the
\* registration's interest set at that moment, with a version strictly greater than
\* the version declared there.
C25_ResolvedValueJustified ==
    [][\A r \in RegIds :
        Resolves(r) =>
            /\ Len(regs'[r].finishChan) = 1
            /\ \/ /\ regs'[r].finishChan[1] = notModifiedResponse
                  /\ sweep.pc = "reply"
                  /\ Head(sweep.waitRemove) = r
               \/ /\ regs'[r].finishChan[1] = FileChangedResponse(disp.event)
                  /\ disp.pc = "reply"
                  /\ disp.ctx = r
                  /\ Declared(regs[r], regs'[r].finishChan[1]) # {}
                  /\ \A f \in Declared(regs[r], regs'[r].finishChan[1]) :
                        f.version < regs'[r].finishChan[1].configFile.version]_vars

====
